---- MODULE Spec2Model ----
(***************************************************************************)
(* The free-space manager of bolt: freespan (a packed run of page ids),    *)
(* the sorted-span helpers (freespans.contains, mergenorm) and freelist    *)
(* (allocate, free, release, rollback, freed, read, write, reload).        *)
(*                                                                         *)
(* A freespan is modelled as the integer the code packs it into,           *)
(* start * 2^16 + size, so that the comparisons the code makes on the      *)
(* packed words (sorting, sort.Search) are the comparisons made here.      *)
(* A Go panic aborts the process: the step that panics records the         *)
(* message in panicked, and no operation runs after it.                    *)
(***************************************************************************)
EXTENDS Integers, Sequences, FiniteSets, TLC

\* ---------------------------------------------------------------- bounds
\* Pages 2..MaxPage exist in the file (0 and 1 are the meta pages).
MaxPage == 5
\* Transaction ids 1..MaxTx.
MaxTx == 2
\* Small overflow counts 0..MaxOverflow of a freed page.
MaxOverflow == 1
\* Requested run lengths 0..MaxAlloc.
MaxAlloc == 2
\* Number of operations in one run of the program.
MaxOps == 6
\* Number of operations in one run with free called on any run.
MaxOpsAny == 4
\* Number of operations in one run of the page operations.
MaxOpsPage == 5
\* Starts 0..MaxSpanStart and small sizes 0..MaxSpanSize of the spans the
\* freespan methods are called on.
MaxSpanStart == 4
MaxSpanSize == 3

\* ------------------------------------------------------------- constants
freespanSizeBits == 16
freespanStartShift == freespanSizeBits
freespanSizeMask == 2^freespanSizeBits - 1
freespanMaxSize == freespanSizeMask

Pgids == 2..MaxPage
TxIds == 1..MaxTx
\* The overflow counts a caller passes: the small ones, and the first one
\* whose run (overflow + 1 pages) no longer fits the 16 size bits.
Overflows == (0..MaxOverflow) \cup {freespanMaxSize}
AllocSizes == 0..MaxAlloc

NoPanic == ""

\* --------------------------------------------------------------- freespan
\* makeFreespan panics when size > freespanMaxSize.  A negative sz stands
\* for a uint64 difference that wrapped around, which is far above
\* freespanMaxSize.  Every start the bounded model forms is far below
\* freespanMaxStart = 2^48 - 1, so the first panic cannot fire here.
makeFreespanPanics(st, sz) == sz < 0 \/ sz > freespanMaxSize

makeFreespan(st, sz) == st * 2^freespanStartShift + sz

start(s) == s \div 2^freespanStartShift

size(s) == s % (freespanSizeMask + 1)

end(s) == start(s) + size(s) - 1

next(s) == start(s) + size(s)

\* uint64(pg - s.start()) < s.size(): when pg < start the difference wraps
\* to at least 2^64 - 2^48, which no 16-bit size exceeds.
contains(s, pg) ==
    size(s) # 0 /\ (IF pg >= start(s) THEN pg - start(s) < size(s) ELSE FALSE)

overlaps(s, t) ==
    IF start(t) < start(s) THEN contains(t, start(s)) ELSE contains(s, start(t))

\* s.append(t): [panic, u, v].
append(s, t) ==
    IF start(t) < start(s)
    THEN [panic |-> "freespan append out of order", u |-> 0, v |-> 0]
    ELSE IF overlaps(s, t)
    THEN [panic |-> "freespan append overlaps", u |-> 0, v |-> 0]
    ELSE LET s1 == IF size(s) = 0 THEN 0 ELSE s
             t1 == IF size(t) = 0 THEN 0 ELSE t
         IN  IF s1 = 0 THEN [panic |-> NoPanic, u |-> t1, v |-> 0]
             ELSE IF t1 = 0 THEN [panic |-> NoPanic, u |-> s1, v |-> 0]
             ELSE IF end(s1) + 1 # start(t1)
             THEN [panic |-> NoPanic, u |-> s1, v |-> t1]
             ELSE LET sz == size(s1) + size(t1)
                  IN  IF sz > freespanMaxSize
                      THEN [panic |-> NoPanic,
                            u |-> makeFreespan(start(s1), freespanMaxSize),
                            v |-> makeFreespan(start(s1) + freespanMaxSize,
                                               sz - freespanMaxSize)]
                      ELSE [panic |-> NoPanic,
                            u |-> makeFreespan(start(s1), sz), v |-> 0]

\* ------------------------------------------------------------- freespans
\* sort.Search(len(ss), func(i) bool { return ss[i] > x }): the binary
\* search of the standard library, 0-based result in 0..Len(ss).
RECURSIVE SearchLoop(_, _, _, _)
SearchLoop(ss, x, i, j) ==
    IF i < j
    THEN LET h == (i + j) \div 2
         IN  IF ~(ss[h + 1] > x)
             THEN SearchLoop(ss, x, h + 1, j)
             ELSE SearchLoop(ss, x, i, h)
    ELSE i

Search(ss, x) == SearchLoop(ss, x, 0, Len(ss))

freespans_contains(ss, pg) ==
    LET pspan == makeFreespan(pg, 0)
        n == Search(ss, pspan)
    IN  IF n = Len(ss) THEN FALSE ELSE contains(ss[n + 1], pg)

RECURSIVE Concat(_)
Concat(all) == IF all = <<>> THEN <<>> ELSE Head(all) \o Concat(Tail(all))

\* The normalizing walk of mergenorm over the sorted dst; out and i are the
\* code's 0-based indices.  Result: [panic, dst] with dst = dst[:out].
RECURSIVE mergenormWalk(_, _, _)
mergenormWalk(dst, out, i) ==
    IF i >= Len(dst)
    THEN [panic |-> NoPanic, dst |-> SubSeq(dst, 1, out)]
    ELSE LET r == append(dst[out + 1], dst[i + 1])
         IN  IF r.panic # NoPanic THEN [panic |-> r.panic, dst |-> dst]
             ELSE IF r.u = 0 THEN mergenormWalk(dst, out, i + 1)
             ELSE IF r.v = 0
             THEN mergenormWalk([dst EXCEPT ![out + 1] = r.u], out + 1, i + 1)
             ELSE mergenormWalk([dst EXCEPT ![out + 1] = r.u, ![out + 2] = r.v],
                                out + 2, i + 1)

\* mergenorm(dst, all): all is the sequence of span lists; the destination
\* buffer is the caller's business (nil in release and reload, the page
\* payload in write).  The order of the lists in all (Go map iteration)
\* does not matter: with more than one list the concatenation is sorted.
mergenorm(all) ==
    LET cat == Concat(all)
    IN  IF Len(cat) = 0 THEN [panic |-> NoPanic, dst |-> <<>>]
        ELSE LET sorted == IF Len(all) > 1
                           THEN SortSeq(cat, LAMBDA a, b : a < b)
                           ELSE cat
             IN  mergenormWalk(sorted, 0, 1)

\* -------------------------------------------------------------- freelist
\* page.count value that marks a count stored in the first payload word.
maxCount == 65535

VARIABLES
    spans,      \* f.spans: the available spans
    pending,    \* f.pending: txid -> spans freed by that transaction
    page,       \* the freelist page: [count, ptr], ptr the payload words
    f2,         \* spans of a fresh freelist that read the page
    used,       \* pages the B-tree layer holds (allocated and not freed)
    last,       \* the operation that ran last, its arguments and result
    prev,       \* available and pending as they were before that operation
    panicked,   \* message of the panic that aborted the process, or ""
    nops,       \* operations run so far
    args        \* the spans s and t a freespan method is called on

vars == <<spans, pending, page, f2, used, last, prev, panicked, nops, args>>

Op(name, t, a, b, r) == [op |-> name, txid |-> t, n |-> a, overflow |-> b, ret |-> r]

\* Pages of a span list, by the start and size of each span.
Run(st, sz) == st .. (st + sz - 1)
Pages(ss) == UNION {Run(start(ss[i]), size(ss[i])) : i \in DOMAIN ss}
PendingPages(pend) == UNION {Pages(pend[t]) : t \in DOMAIN pend}

\* The pending lists as mergenorm's argument, in txid order.
RECURSIVE pendingLists(_, _)
pendingLists(pend, keys) ==
    IF keys = {} THEN <<>>
    ELSE LET t == CHOOSE x \in keys : \A y \in keys : x <= y
         IN  <<pend[t]>> \o pendingLists(pend, keys \ {t})

spancount(ss, pend) == Len(ss) + Len(Concat(pendingLists(pend, DOMAIN pend)))

copyall(ss, pend) == mergenorm(<<ss>> \o pendingLists(pend, DOMAIN pend))

\* allocateFrom with the size test off by one: a span of exactly n pages is
\* passed over.
RECURSIVE allocateFromSkipExact(_, _, _)
allocateFromSkipExact(ss, n, i) ==
    IF i > Len(ss) THEN [panic |-> NoPanic, ret |-> 0, spans |-> ss]
    ELSE IF start(ss[i]) <= 1
    THEN [panic |-> "invalid page allocation", ret |-> 0, spans |-> ss]
    ELSE IF size(ss[i]) <= n THEN allocateFromSkipExact(ss, n, i + 1)
    ELSE [panic |-> NoPanic, ret |-> start(ss[i]),
          spans |-> [ss EXCEPT ![i] = makeFreespan(start(ss[i]) + n, size(ss[i]) - n)]]

\* allocate(n) scanning from the 1-based index i: [panic, ret, spans].
RECURSIVE allocateFrom(_, _, _)
allocateFrom(ss, n, i) ==
    IF i > Len(ss) THEN [panic |-> NoPanic, ret |-> 0, spans |-> ss]
    ELSE IF start(ss[i]) <= 1
    THEN [panic |-> "invalid page allocation", ret |-> 0, spans |-> ss]
    ELSE IF size(ss[i]) < n THEN allocateFrom(ss, n, i + 1)
    ELSE [panic |-> NoPanic, ret |-> start(ss[i]),
          spans |-> [ss EXCEPT ![i] = makeFreespan(start(ss[i]) + n, size(ss[i]) - n)]]

allocate(ss, n) == allocateFrom(ss, n, 1)

\* free without its check of the page id.
freeAnyId(sp, id, overflow) ==
    IF makeFreespanPanics(id, overflow + 1)
    THEN [panic |-> "makeFreespan size too large", spans |-> sp]
    ELSE LET pspan == makeFreespan(id, overflow + 1)
             n == Search(sp, pspan)
         IN  IF n = Len(sp) THEN [panic |-> NoPanic, spans |-> Append(sp, pspan)]
             ELSE LET r == append(pspan, sp[n + 1])
                  IN  IF r.panic # NoPanic THEN [panic |-> r.panic, spans |-> sp]
                      ELSE IF r.v = 0
                      THEN [panic |-> NoPanic, spans |-> [sp EXCEPT ![n + 1] = r.u]]
                      ELSE [panic |-> NoPanic,
                            spans |-> SubSeq(sp, 1, n) \o <<r.u, r.v>>
                                      \o SubSeq(sp, n + 2, Len(sp))]

\* free(txid, p) on sp = f.pending[txid] (empty when the key is absent):
\* [panic, spans], spans the list stored back under txid.
free(sp, id, overflow) ==
    IF id <= 1 THEN [panic |-> "cannot free page 0 or 1", spans |-> sp]
    ELSE IF makeFreespanPanics(id, overflow + 1)
    THEN [panic |-> "makeFreespan size too large", spans |-> sp]
    ELSE LET pspan == makeFreespan(id, overflow + 1)
             n == Search(sp, pspan)
         IN  IF n = Len(sp) THEN [panic |-> NoPanic, spans |-> Append(sp, pspan)]
             ELSE LET r == append(pspan, sp[n + 1])
                  IN  IF r.panic # NoPanic THEN [panic |-> r.panic, spans |-> sp]
                      ELSE IF r.v = 0
                      THEN [panic |-> NoPanic, spans |-> [sp EXCEPT ![n + 1] = r.u]]
                      ELSE [panic |-> NoPanic,
                            spans |-> SubSeq(sp, 1, n) \o <<r.u, r.v>>
                                      \o SubSeq(sp, n + 2, Len(sp))]

\* release(txid): [panic, spans, pending].
release(ss, pend, txid) ==
    LET moved == {t \in DOMAIN pend : t <= txid}
        m == mergenorm(<<ss>> \o pendingLists(pend, moved))
    IN  [panic |-> m.panic, spans |-> m.dst,
         pending |-> [t \in DOMAIN pend \ moved |-> pend[t]]]

\* rollback without its delete: the pending map as it is.
rollbackKeeps(pend, txid) == pend

\* rollback deleting as release does: every key up to txid.
rollbackOlder(pend, txid) == [t \in {k \in DOMAIN pend : k > txid} |-> pend[t]]

\* rollback(txid): the pending map without the key.
rollback(pend, txid) == [t \in DOMAIN pend \ {txid} |-> pend[t]]

freed(ss, pend, pgid) ==
    \/ freespans_contains(ss, pgid)
    \/ \E t \in DOMAIN pend : freespans_contains(pend[t], pgid)

\* read(p): the new f.spans.
read(p) ==
    LET idx == IF p.count = maxCount THEN 1 ELSE 0
        count == IF p.count = maxCount THEN p.ptr[1] ELSE p.count
    IN  IF count = 0 THEN <<>>
        ELSE SortSeq(SubSeq(p.ptr, idx + 1, count), LAMBDA a, b : a < b)

\* write(p): [panic, page].  ptr holds the payload words up to the recorded
\* count, the only ones read can reach.
write(ss, pend) ==
    LET n == spancount(ss, pend)
    IN  IF n = 0 THEN [panic |-> NoPanic, page |-> [count |-> 0, ptr |-> <<>>]]
        ELSE LET m == copyall(ss, pend)
             IN  IF m.panic # NoPanic THEN [panic |-> m.panic, page |-> [count |-> 0, ptr |-> <<>>]]
                 ELSE IF n < maxCount
                 THEN [panic |-> NoPanic, page |-> [count |-> Len(m.dst), ptr |-> m.dst]]
                 ELSE [panic |-> NoPanic,
                       page |-> [count |-> maxCount, ptr |-> <<Len(m.dst)>> \o m.dst]]

\* The removal loop of reload over the normalized pending spans rms:
\* [panic, spans].
RECURSIVE reloadRemove(_, _)
reloadRemove(ss, rms) ==
    IF rms = <<>> THEN [panic |-> NoPanic, spans |-> ss]
    ELSE
    LET rm == Head(rms)
        n == Search(ss, rm)
    IN  IF n = Len(ss) THEN [panic |-> "index out of range", spans |-> ss]
        ELSE IF start(rm) = start(ss[n + 1])
        THEN LET s == ss[n + 1]
             IN  IF makeFreespanPanics(start(s) + size(rm), size(s) - size(rm))
                 THEN [panic |-> "makeFreespan size too large", spans |-> ss]
                 ELSE reloadRemove(
                        [ss EXCEPT ![n + 1] = makeFreespan(start(s) + size(rm),
                                                           size(s) - size(rm))],
                        Tail(rms))
        ELSE IF n = 0 THEN [panic |-> "index out of range", spans |-> ss]
        ELSE
        LET s == ss[n]
        IN  IF start(s) = start(rm)
            THEN IF size(rm) # size(s)
                 THEN [panic |-> "sort.Search misuse?", spans |-> ss]
                 ELSE reloadRemove([ss EXCEPT ![n] = makeFreespan(start(s), 0)],
                                   Tail(rms))
            ELSE IF ~contains(s, start(rm))
            THEN [panic |-> "sort.Search misuse (part b)?", spans |-> ss]
            ELSE IF next(s) = next(rm)
            THEN reloadRemove(
                   [ss EXCEPT ![n] = makeFreespan(start(s), size(s) - size(rm))],
                   Tail(rms))
            ELSE IF makeFreespanPanics(next(rm), next(s) - next(rm))
            THEN [panic |-> "makeFreespan size too large", spans |-> ss]
            ELSE reloadRemove(
                   SubSeq(ss, 1, n - 1)
                   \o <<makeFreespan(start(s), start(rm) - start(s)),
                        makeFreespan(next(rm), next(s) - next(rm))>>
                   \o SubSeq(ss, n + 1, Len(ss)),
                   Tail(rms))

\* reload(p): [panic, spans].
reload(p, pend) ==
    LET m == mergenorm(pendingLists(pend, DOMAIN pend))
    IN  IF m.panic # NoPanic THEN [panic |-> m.panic, spans |-> read(p)]
        ELSE reloadRemove(read(p), m.dst)

\* ---------------------------------------------------------------- actions
Init ==
    /\ spans = <<>>
    /\ pending = [t \in {} |-> <<>>]
    /\ page = [count |-> 0, ptr |-> <<>>]
    /\ f2 = <<>>
    /\ used = Pgids
    /\ last = Op("newFreelist", 0, 0, 0, 0)
    /\ prev = [spans |-> <<>>, pending |-> [t \in {} |-> <<>>]]
    /\ panicked = NoPanic
    /\ nops = 0
    /\ args = <<0, 0>>

Live == panicked = NoPanic /\ nops < MaxOps

\* The lists an operation starts from, kept to compare with what it leaves.
Before == [spans |-> spans, pending |-> pending]

Min(a, b) == IF a <= b THEN a ELSE b

\* The caller contract of free: the B-tree layer frees only runs it holds.
\* Pages 2..MaxPage are tracked in used; small runs stay inside them, and
\* the pages above MaxPage (the rest of the file) are held by the caller.
FreeAllowed(id, overflow) ==
    /\ overflow <= MaxOverflow => id + overflow <= MaxPage
    /\ \A q \in id .. Min(id + overflow, MaxPage) : q \in used

PendingOf(pend, t) == IF t \in DOMAIN pend THEN pend[t] ELSE <<>>

Allocate(n) ==
    /\ Live
    /\ LET r == allocate(spans, n)
       IN  /\ last' = Op("allocate", 0, n, 0, r.ret)
           /\ panicked' = r.panic
           /\ IF r.panic # NoPanic
              THEN UNCHANGED <<spans, used>>
              ELSE /\ spans' = r.spans
                   /\ used' = IF r.ret = 0 THEN used ELSE used \cup Run(r.ret, n)
    /\ nops' = nops + 1
    /\ prev' = Before
    /\ UNCHANGED args
    /\ UNCHANGED <<pending, page, f2>>

Free(t, id, overflow) ==
    /\ Live
    /\ FreeAllowed(id, overflow)
    /\ LET r == free(PendingOf(pending, t), id, overflow)
       IN  /\ last' = Op("free", t, id, overflow, 0)
           /\ panicked' = r.panic
           /\ IF r.panic # NoPanic
              THEN UNCHANGED <<pending, used>>
              ELSE /\ pending' = [k \in DOMAIN pending \cup {t} |->
                                    IF k = t THEN r.spans ELSE pending[k]]
                   /\ used' = used \ Run(id, overflow + 1)
    /\ nops' = nops + 1
    /\ prev' = Before
    /\ UNCHANGED args
    /\ UNCHANGED <<spans, page, f2>>

Release(t) ==
    /\ Live
    /\ LET r == release(spans, pending, t)
       IN  /\ last' = Op("release", t, 0, 0, 0)
           /\ panicked' = r.panic
           /\ IF r.panic # NoPanic
              THEN UNCHANGED <<spans, pending>>
              ELSE spans' = r.spans /\ pending' = r.pending
    /\ nops' = nops + 1
    /\ prev' = Before
    /\ UNCHANGED args
    /\ UNCHANGED <<page, f2, used>>

\* The pages a rolled back transaction freed stay with the caller.
Rollback(t) ==
    /\ Live
    /\ pending' = rollback(pending, t)
    /\ used' = used \cup Pages(PendingOf(pending, t))
    /\ last' = Op("rollback", t, 0, 0, 0)
    /\ nops' = nops + 1
    /\ prev' = Before
    /\ UNCHANGED args
    /\ UNCHANGED <<spans, page, f2, panicked>>

Freed(pg) ==
    /\ Live
    /\ last' = Op("freed", 0, pg, 0, IF freed(spans, pending, pg) THEN 1 ELSE 0)
    /\ nops' = nops + 1
    /\ prev' = Before
    /\ UNCHANGED args
    /\ UNCHANGED <<spans, pending, page, f2, used, panicked>>

Write ==
    /\ Live
    /\ LET r == write(spans, pending)
       IN  /\ last' = Op("write", 0, 0, 0, 0)
           /\ panicked' = r.panic
           /\ IF r.panic # NoPanic THEN UNCHANGED page ELSE page' = r.page
    /\ nops' = nops + 1
    /\ prev' = Before
    /\ UNCHANGED args
    /\ UNCHANGED <<spans, pending, f2, used>>

\* A fresh freelist (newFreelist) reads the page.
Read ==
    /\ Live
    /\ f2' = read(page)
    /\ last' = Op("read", 0, 0, 0, 0)
    /\ nops' = nops + 1
    /\ prev' = Before
    /\ UNCHANGED args
    /\ UNCHANGED <<spans, pending, page, used, panicked>>

\* reload that also empties the pending map, as a release of every
\* transaction would.
ReloadDropsPending ==
    /\ Live
    /\ PendingPages(pending) \subseteq Pages(read(page))
    /\ LET r == reload(page, pending)
       IN  /\ last' = Op("reload", 0, 0, 0, 0)
           /\ panicked' = r.panic
           /\ IF r.panic # NoPanic
              THEN UNCHANGED <<spans, used>>
              ELSE spans' = r.spans /\ used' = used \ Pages(r.spans)
    /\ nops' = nops + 1
    /\ prev' = Before
    /\ UNCHANGED args
    /\ pending' = [t \in {} |-> <<>>]
    /\ UNCHANGED <<page, f2>>

\* reload is called with a page whose image includes every pending page of
\* this freelist as free.  The pages the reloaded list offers are no longer
\* held by the caller (the writer that took them was rolled back).
Reload ==
    /\ Live
    /\ PendingPages(pending) \subseteq Pages(read(page))
    /\ LET r == reload(page, pending)
       IN  /\ last' = Op("reload", 0, 0, 0, 0)
           /\ panicked' = r.panic
           /\ IF r.panic # NoPanic
              THEN UNCHANGED <<spans, used>>
              ELSE spans' = r.spans /\ used' = used \ Pages(r.spans)
    /\ nops' = nops + 1
    /\ prev' = Before
    /\ UNCHANGED args
    /\ UNCHANGED <<pending, page, f2>>

\* The operations on the in-memory lists.
NextMem ==
    \/ \E n \in AllocSizes : Allocate(n)
    \/ \E t \in TxIds, id \in Pgids, o \in Overflows : Free(t, id, o)
    \/ \E t \in TxIds : Release(t)
    \/ \E t \in TxIds : Rollback(t)

\* Every operation, the query and the page operations included.
Next ==
    \/ NextMem
    \/ \E pg \in 0..MaxPage : Freed(pg)
    \/ Write
    \/ Read
    \/ Reload

Spec == Init /\ [][Next]_vars

SpecMem == Init /\ [][NextMem]_vars

\* free as any caller may call it: free itself does not look at who holds
\* the run, so the run may be one that is free already, or a meta page.
FreeAny(t, id, overflow) ==
    /\ Live
    /\ overflow <= MaxOverflow => id + overflow <= MaxPage
    /\ LET r == free(PendingOf(pending, t), id, overflow)
       IN  /\ last' = Op("free", t, id, overflow, 0)
           /\ panicked' = r.panic
           /\ IF r.panic # NoPanic
              THEN UNCHANGED <<pending, used>>
              ELSE /\ pending' = [k \in DOMAIN pending \cup {t} |->
                                    IF k = t THEN r.spans ELSE pending[k]]
                   /\ used' = used \ Run(id, overflow + 1)
    /\ nops' = nops + 1
    /\ prev' = Before
    /\ UNCHANGED args
    /\ UNCHANGED <<spans, page, f2>>

\* The operations on the in-memory lists with free called on any run, in
\* sequences of at most MaxOpsAny operations.
NextAny ==
    \/ nops < MaxOpsAny /\ \E n \in AllocSizes : Allocate(n)
    \/ nops < MaxOpsAny /\ \E t \in TxIds : Release(t)
    \/ nops < MaxOpsAny /\ \E t \in TxIds : Rollback(t)
    \/ nops < MaxOpsAny /\ \E t \in TxIds, id \in 0..MaxPage, o \in Overflows :
                                FreeAny(t, id, o)

SpecAny == Init /\ [][NextAny]_vars

\* Every operation under the contract, and free called on a meta page, in
\* sequences of at most MaxOpsAny operations.
NextMeta ==
    \/ nops < MaxOpsAny /\ \E n \in AllocSizes : Allocate(n)
    \/ nops < MaxOpsAny /\ \E t \in TxIds, id \in Pgids, o \in Overflows :
                                Free(t, id, o)
    \/ nops < MaxOpsAny /\ \E t \in TxIds : Release(t)
    \/ nops < MaxOpsAny /\ \E t \in TxIds : Rollback(t)
    \/ nops < MaxOpsAny /\ \E pg \in 0..MaxPage : Freed(pg)
    \/ nops < MaxOpsAny /\ Write
    \/ nops < MaxOpsAny /\ Read
    \/ nops < MaxOpsAny /\ Reload
    \/ nops < MaxOpsAny /\ \E t \in TxIds, id \in 0..1, o \in Overflows :
                                FreeAny(t, id, o)

SpecMeta == Init /\ [][NextMeta]_vars

\* The page operations and the operations that fill and empty the pending
\* lists they work on, in sequences of at most MaxOpsPage operations.
NextPage ==
    \/ nops < MaxOpsPage /\ \E t \in TxIds, id \in Pgids, o \in Overflows :
                                 Free(t, id, o)
    \/ nops < MaxOpsPage /\ \E t \in TxIds : Release(t)
    \/ nops < MaxOpsPage /\ \E t \in TxIds : Rollback(t)
    \/ nops < MaxOpsPage /\ Write
    \/ nops < MaxOpsPage /\ Read
    \/ nops < MaxOpsPage /\ Reload

SpecPage == Init /\ [][NextPage]_vars

\* The spans the freespan methods are called on: small ones, and long ones
\* that a small adjacent span still fills up to at most freespanMaxSize (a
\* longer union is split at start + 65535, a start whose packed value is
\* beyond the integers of the model checker).
SpanInputs ==
    {makeFreespan(st, sz) :
        st \in 0..MaxSpanStart,
        sz \in (0..MaxSpanSize) \cup {freespanMaxSize - MaxSpanSize}}

\* A freelist as newFreelist leaves it, and two spans.
InitSpan ==
    /\ spans = <<>>
    /\ pending = [t \in {} |-> <<>>]
    /\ page = [count |-> 0, ptr |-> <<>>]
    /\ f2 = <<>>
    /\ used = Pgids
    /\ last = Op("newFreelist", 0, 0, 0, 0)
    /\ prev = [spans |-> <<>>, pending |-> [t \in {} |-> <<>>]]
    /\ panicked = NoPanic
    /\ nops = 0
    /\ args \in SpanInputs \X SpanInputs

\* s.append(t): ret holds <<u, v>>.
CallAppend ==
    /\ panicked = NoPanic /\ nops = 0
    /\ LET r == append(args[1], args[2])
       IN  /\ last' = Op("append", 0, 0, 0, <<r.u, r.v>>)
           /\ panicked' = r.panic
    /\ nops' = nops + 1
    /\ UNCHANGED <<spans, pending, page, f2, used, prev, args>>

\* s.overlaps(t): ret holds 1 for true, 0 for false.
CallOverlaps ==
    /\ panicked = NoPanic /\ nops = 0
    /\ last' = Op("overlaps", 0, 0, 0, IF overlaps(args[1], args[2]) THEN 1 ELSE 0)
    /\ nops' = nops + 1
    /\ UNCHANGED <<spans, pending, page, f2, used, prev, panicked, args>>

NextSpan == CallAppend \/ CallOverlaps

SpecSpan == InitSpan /\ [][NextSpan]_vars

\* ------------------------------------------------------------- properties
Returned == panicked = NoPanic

FreePages == Pages(spans) \cup PendingPages(pending)

\* Sorted strictly by start, no length-zero span, no two consecutive spans
\* adjacent (or overlapping): a.start + a.length < b.start.
Normalized(ss) ==
    /\ \A i \in DOMAIN ss : size(ss[i]) > 0
    /\ \A i \in 1 .. Len(ss) - 1 : next(ss[i]) < start(ss[i + 1])

\* Every span of available and of the pending lists, in one sequence.
AllSpans == spans \o Concat(pendingLists(pending, DOMAIN pending))

\* C1: allocate never returns a run that contains a page which is held in
\* some pending list (freed, and not yet released).
C1_AllocateAvoidsPending ==
    (last.op = "allocate" /\ Returned /\ last.ret # 0)
        => Run(last.ret, last.n) \cap PendingPages(pending) = {}

\* C2: after allocate, free, release, rollback or reload returns, no page is
\* contained in more than one span of available and the pending lists.
C2_NoPageInTwoSpans ==
    (Returned /\ last.op \in {"allocate", "free", "release", "rollback", "reload"})
        => \A i, j \in DOMAIN AllSpans :
              i # j => Run(start(AllSpans[i]), size(AllSpans[i]))
                       \cap Run(start(AllSpans[j]), size(AllSpans[j])) = {}

\* C3: release(t) returns, and afterwards available covers the pages it
\* covered before united with the pages of every pending list with key <= t
\* (so with no such key the pages of available are unchanged).
C3_ReleaseMovesPending ==
    [][last'.op = "release"
        => /\ panicked' = NoPanic
           /\ Pages(spans') =
                Pages(spans) \cup
                UNION {Pages(pending[k]) : k \in {x \in DOMAIN pending : x <= last'.txid}}]_vars

\* C4: free(txid, page) with page.id >= 2 and no page of the run already
\* free returns, and afterwards pending[txid] covers its former pages plus
\* the run, while available and the other pending lists are unchanged.
C4_FreeAddsRun ==
    [][(/\ last'.op = "free"
        /\ last'.n >= 2
        /\ \A q \in FreePages : ~(last'.n <= q /\ q <= last'.n + last'.overflow))
        => /\ panicked' = NoPanic
           /\ last'.txid \in DOMAIN pending'
           /\ Pages(pending'[last'.txid]) =
                Pages(PendingOf(pending, last'.txid))
                \cup Run(last'.n, last'.overflow + 1)
           /\ spans' = spans
           /\ \A k \in TxIds \ {last'.txid} :
                /\ k \in DOMAIN pending' <=> k \in DOMAIN pending
                /\ k \in DOMAIN pending => pending'[k] = pending[k]]_vars

\* C5: write returns in every state, and a fresh freelist that reads the
\* page right after the write holds the sorted, normalized list covering
\* exactly the pages of available and of all pending lists.
C5_WriteReadRoundTrip ==
    [][/\ last'.op = "write" => panicked' = NoPanic
       /\ (last.op = "write" /\ last'.op = "read")
            => /\ Normalized(f2')
               /\ Pages(f2') = FreePages]_vars

\* C6: freed(p) is true exactly when some span of available or of a pending
\* list contains p.
C6_FreedIffContained ==
    last.op = "freed" => (last.ret = 1 <=> last.n \in FreePages)

\* Index of the first span of ss with at least n pages, 0 when none.
FirstFit(ss, n) ==
    IF \E i \in DOMAIN ss : size(ss[i]) >= n
    THEN CHOOSE i \in DOMAIN ss :
            /\ size(ss[i]) >= n
            /\ \A j \in 1 .. i - 1 : size(ss[j]) < n
    ELSE 0

C8_AllocateZeroReturnsZero ==
    (last.op = "allocate" /\ last.n = 0 /\ Returned) => last.ret = 0

\* C9: when allocate(n) returns alloc # 0, the pages alloc .. alloc+n-1 were
\* covered by available before and none is covered after; one span lost its
\* first n pages, the other spans and pending are unchanged.
C9_AllocationLaw ==
    [][(last'.op = "allocate" /\ panicked' = NoPanic /\ last'.ret # 0)
        => LET run == Run(last'.ret, last'.n)
           IN  /\ run \subseteq Pages(spans)
               /\ run \cap Pages(spans') = {}
               /\ \E i \in DOMAIN spans :
                    /\ start(spans[i]) = last'.ret
                    /\ size(spans[i]) >= last'.n
                    /\ spans' = [spans EXCEPT ![i] =
                                   makeFreespan(start(spans[i]) + last'.n,
                                                size(spans[i]) - last'.n)]
               /\ pending' = pending]_vars

\* C10: after allocate, free, release, rollback, read or reload returns,
\* available is sorted strictly by start, has no length-zero span and no two
\* consecutive adjacent spans (for read: the list of the freelist that read).
C10_AvailableNormalized ==
    /\ (Returned /\ last.op \in {"allocate", "free", "release", "rollback", "reload"})
          => Normalized(spans)
    /\ (Returned /\ last.op = "read") => Normalized(f2)

\* C11: a free whose run holds a page that is already in available or in
\* some pending list (the list of the same transaction included) panics.
C11_DoubleFreePanics ==
    [][(/\ last'.op = "free"
        /\ \E q \in FreePages : last'.n <= q /\ q <= last'.n + last'.overflow)
        => panicked' # NoPanic]_vars

\* C12: reload(page), for a page written from a state that held this
\* freelist's pending spans, returns, and afterwards available covers
\* exactly the pages recorded on the page minus the pages of every pending
\* list.
C12_ReloadRemovesPending ==
    [][last'.op = "reload"
        => /\ panicked' = NoPanic
           /\ Pages(spans') = Pages(read(page)) \ PendingPages(pending)]_vars

\* C13: free(tx, p, k) immediately followed by rollback(tx) leaves available
\* and pending exactly as they were before the free, whatever pending[tx]
\* held before.
C13_FreeRollbackRestores ==
    [][(last.op = "free" /\ last'.op = "rollback" /\ last'.txid = last.txid)
        => spans' = prev.spans /\ pending' = prev.pending]_vars

\* C13, amended: free(tx, p, k) immediately followed by rollback(tx) leaves
\* available and pending exactly as they were before the free whenever
\* pending had no entry for tx before the free.
C13_FreeRollbackRestoresFresh ==
    [][(/\ last.op = "free" /\ last'.op = "rollback" /\ last'.txid = last.txid
        /\ last.txid \notin DOMAIN prev.pending)
        => spans' = prev.spans /\ pending' = prev.pending]_vars

\* The first operation freed a run for a transaction and the second rolled
\* that transaction back: the lists are empty again.
C13_Witness ==
    /\ nops = 2
    /\ last.op = "rollback"
    /\ DOMAIN prev.pending = {last.txid}
    /\ spans = <<>> /\ DOMAIN pending = {}

\* C14: free(tx, p, 0) immediately followed by release(tx), for a page
\* p >= 2 that is not already free, adds exactly page p to the pages of
\* available: p is covered afterwards and no other page enters or leaves.
C14_FreeReleaseAddsPage ==
    [][(/\ last.op = "free" /\ last.overflow = 0 /\ last.n >= 2
        /\ last.n \notin Pages(prev.spans) \cup PendingPages(prev.pending)
        /\ last'.op = "release" /\ last'.txid = last.txid)
        => /\ panicked' = NoPanic
           /\ Pages(spans') = Pages(prev.spans) \cup {last.n}]_vars

\* C15: rollback(txid) returns and removes exactly the entry pending[txid]:
\* available is unchanged (the discarded pages are not returned to it), and
\* every other pending list is unchanged.
C15_RollbackRemovesEntry ==
    [][last'.op = "rollback"
        => /\ panicked' = NoPanic
           /\ spans' = spans
           /\ DOMAIN pending' = DOMAIN pending \ {last'.txid}
           /\ \A k \in DOMAIN pending' : pending'[k] = pending[k]]_vars

\* A transaction with pending spans was rolled back while available and
\* another transaction's list held spans.
C15_Witness ==
    /\ last.op = "rollback"
    /\ last.txid \in DOMAIN prev.pending
    /\ spans # <<>>
    /\ \E k \in DOMAIN pending : k # last.txid

\* C17: pages 0 and 1 are never free: in every state no span of available,
\* of a pending list or of a list read back from a page contains page 0 or
\* page 1; a free whose page id is 0 or 1 panics and leaves available and
\* pending as they were; and allocate never returns page 1.
C17_MetaPagesNeverFree ==
    /\ []({0, 1} \cap (FreePages \cup Pages(f2)) = {})
    /\ [](last.op = "allocate" => last.ret # 1)
    /\ [][(last'.op = "free" /\ last'.n <= 1)
            => /\ panicked' # NoPanic
               /\ spans' = spans /\ pending' = pending]_vars

\* A free of page 0 or 1 was refused by a freelist that holds spans.
C17_Witness ==
    /\ last.op = "free" /\ last.n <= 1
    /\ panicked = "cannot free page 0 or 1"
    /\ spans # <<>>

\* The lists a release or a write of this state hands to mergenorm:
\* available and every pending list.
AllLists == <<spans>> \o pendingLists(pending, DOMAIN pending)

\* Each list sorted, and no two spans of the lists share a page.
SortedDisjoint(all) ==
    /\ \A k \in DOMAIN all : \A i \in 1 .. Len(all[k]) - 1 : all[k][i] <= all[k][i + 1]
    /\ LET c == Concat(all)
       IN  \A i, j \in DOMAIN c :
              i # j => Run(start(c[i]), size(c[i])) \cap Run(start(c[j]), size(c[j])) = {}

\* C18: mergenorm of sorted lists whose spans pairwise do not overlap (a
\* single list, a single span, three or more pairwise non-adjacent spans
\* included) returns, and its result is sorted, holds no zero-length span
\* and no adjacent unmerged pair, and covers exactly the pages of the inputs.
C18_MergenormNormalizes ==
    SortedDisjoint(AllLists)
        => LET m == mergenorm(AllLists)
           IN  /\ m.panic = NoPanic
               /\ Normalized(m.dst)
               /\ Pages(m.dst) = Pages(Concat(AllLists))

\* C19: after every free under the caller contract that returns,
\* pending[txid] is sorted and normalized: starts strictly increasing and no
\* two consecutive spans adjacent (pages 12 and 13 freed in that order under
\* one transaction are held as the single span (12,2)).
C19_PendingNormalized ==
    (last.op = "free" /\ Returned)
        => LET ss == pending[last.txid]
           IN  \A i \in 1 .. Len(ss) - 1 :
                  /\ start(ss[i]) < start(ss[i + 1])
                  /\ next(ss[i]) # start(ss[i + 1])

\* rm lies within one span of ss.
SubSpanOfSome(rm, ss) ==
    \E i \in DOMAIN ss : start(ss[i]) <= start(rm) /\ next(rm) <= next(ss[i])

\* C20: reload(page) returns without a fatal error whenever every span rm
\* of the normalized union of the pending lists is a sub-span of some span
\* read from the page, whether rm is a strict prefix, an exact match, a
\* suffix or the middle of that span and wherever that span lies in
\* available (the search index never equals len(available)).
C20_ReloadCompletes ==
    [][(/\ last'.op = "reload"
        /\ LET m == mergenorm(pendingLists(pending, DOMAIN pending))
           IN  /\ m.panic = NoPanic
               /\ \A k \in DOMAIN m.dst : SubSpanOfSome(m.dst[k], read(page)))
        => panicked' = NoPanic]_vars

\* C21: read(page) and reload(page) leave the pending map unchanged: every
\* pending key and every span of every pending list is the same after the
\* call as before it.
C21_ReadReloadKeepPending ==
    [][last'.op \in {"read", "reload"} => pending' = pending]_vars

\* reload returned with another available list than before while a
\* transaction held pending spans.
C21_Witness ==
    /\ last.op = "reload" /\ Returned
    /\ DOMAIN pending # {}
    /\ spans # prev.spans

\* The pages of span s.
SpanPages(s) == Run(start(s), size(s))

\* What append(s, t) is to return, case by case.
AppendCases(s, t) ==
    IF size(s) = 0 /\ size(t) = 0 THEN <<0, 0>>
    ELSE IF size(s) = 0 THEN <<t, 0>>
    ELSE IF size(t) = 0 THEN <<s, 0>>
    ELSE IF next(s) # start(t) THEN <<s, t>>
    ELSE IF size(s) + size(t) <= freespanMaxSize
    THEN <<makeFreespan(start(s), size(s) + size(t)), 0>>
    ELSE <<makeFreespan(start(s), freespanMaxSize),
           makeFreespan(start(s) + freespanMaxSize,
                        size(s) + size(t) - freespanMaxSize)>>

\* C22: append(s, t), for spans with start(s) <= start(t) that share no
\* page, does not abort and returns (u, v) covering exactly the pages of s
\* and t: (0,0) if both are length-zero, (the other, 0) if one is, (merged,
\* 0) if adjacent with combined length <= 65535, (length 65535 at start(s),
\* the remainder after it) if adjacent and longer, (s, t) otherwise; with a
\* single resulting span u is non-zero and v is 0.
C22_AppendUnion ==
    (/\ last.op = "append"
     /\ start(args[1]) <= start(args[2])
     /\ SpanPages(args[1]) \cap SpanPages(args[2]) = {})
        => /\ panicked = NoPanic
           /\ last.ret = AppendCases(args[1], args[2])
           /\ SpanPages(last.ret[1]) \cup SpanPages(last.ret[2])
                = SpanPages(args[1]) \cup SpanPages(args[2])
           /\ (last.ret[2] = 0 /\ size(args[1]) + size(args[2]) > 0)
                 => last.ret[1] # 0

\* C23: overlaps(s, t) is true if and only if some page is contained in
\* both s and t; it is symmetric in s and t, and a length-zero span overlaps
\* nothing.
C23_OverlapsIffIntersect ==
    last.op = "overlaps"
        => /\ last.ret = 1 <=> SpanPages(args[1]) \cap SpanPages(args[2]) # {}
           /\ overlaps(args[1], args[2]) <=> overlaps(args[2], args[1])
           /\ (size(args[1]) = 0 \/ size(args[2]) = 0) => last.ret = 0
====
